---- MODULE Spec2Model ----
(***************************************************************************)
(* ClangCompleter (python/completers/cpp/clang_completer.py): the request  *)
(* coordination between the editor loop and the asynchronous clang engine. *)
(*                                                                         *)
(* The coordinator's fields are modelled one to one.  A future is modelled *)
(* by the engine task it refers to, whose state the engine updates in      *)
(* place; a task whose future the coordinator dropped while it was running *)
(* lives on in the engine as an orphan.  What the editor and the flags     *)
(* collaborator answer during a call (buffer lines, flags, cursor) is an   *)
(* input of the call.                                                      *)
(***************************************************************************)
EXTENDS Integers, Sequences, FiniteSets, Bags, TLC

(* ------------------------------ bounds -------------------------------- *)

\* parse tasks the engine accepts at a time
MaxRunningParses == 3
\* completion tasks the engine accepts at a time
MaxRunningCompletions == 2

\* longest line text enumerated character by character for ShouldUseClang
MaxLineLength == 2

(* ------------------------- program constants -------------------------- *)

CLANG_FILETYPES == { "c", "cpp", "objc", "objcpp" }

\* int( vimsupport.GetVariableValue( "g:ycm_max_diagnostics_to_display" ) )
MAX_DIAGNOSTICS_TO_DISPLAY == 2

\* OnFileReadyToParse: NumLinesInBuffer( vim.current.buffer ) < 5
MinLinesToParse == 5

\* ShowDetailedDiagnostic: distance_to_closest_diagnostic = 999
InitialDistance == 999

(* ------------------------------ editor -------------------------------- *)

\* the clang buffers the user edits; vim.current.buffer.name is one of them
Files == { "a.cpp", "b.cpp" }

\* a file that only diagnostics name (an included header)
HeaderFile == "a.h"

Lines4 == << "int x;", "", "", "" >>
Lines5 == << "int x;", "", "", "", "" >>
LineChoices == { Lines4, Lines5 }

NoFlags == << >>
SomeFlags == << "-Wall" >>
FlagChoices == { NoFlags, SomeFlags }

EmptyQuery == ""
Queries == { EmptyQuery, "fo" }

\* 0-based cursor positions, vimsupport.CurrentLineAndColumn()
CursorLines == { 2, 6, 98 }
CursorColumns == { 5, 8, 1008 }

\* vim.current.line as the sequence of its characters: every text of up to
\* MaxLineLength characters, and four longer ones
TriggerChars == { "f", ".", "-", ">", ":" }
FooDot == << "f", "o", "o", "." >>
FooArrow == << "f", "o", "o", "-", ">" >>
FooColon == << "f", "o", "o", ":" >>
FooScope == << "f", "o", "o", ":", ":" >>
LineTexts ==
  UNION { [ 1 .. n -> TriggerChars ] : n \in 0 .. MaxLineLength }
  \cup { FooDot, FooArrow, FooColon, FooScope }

\* the start_column values ShouldUseNow is called with
StartColumns == -1 .. MaxLineLength + 4

(* ------------------------- engine result values ----------------------- *)

Diag( f, l, c ) ==
  [ filename_ |-> f, line_number_ |-> l, column_number_ |-> c,
    kind_ |-> "E", text_ |-> "expected ';'",
    long_formatted_text_ |-> f \o ":" \o ToString( l ) \o ":"
                               \o ToString( c ) \o ": error: expected ';'" ]

NoDiagnostics == << >>

\* the diagnostic lists a parse of f can produce
DiagLists( f ) ==
  { NoDiagnostics,
    << Diag( f, 3, 2 ), Diag( HeaderFile, 3, 2 ), Diag( f, 3, 10 ),
       Diag( f, 7, 2 ) >> }

DiagFileNames == Files \cup { HeaderFile }
DiagLineNumbers == { 3, 7 }

CompletionData ==
  [ text_to_insert |-> "foo", main_text |-> "foo(int)",
    extra_menu_info |-> "int foo(int)", kind_ |-> "f",
    detailed_info |-> "docs" ]

\* the candidate lists a completion query can produce
CompletionLists == { << >>, << CompletionData >> }

(* ------------------------------- state -------------------------------- *)

VARIABLES
  current,                   \* vim.current.buffer.name
  contents_holder,           \* self.contents_holder
  filename_holder,           \* self.filename_holder
  last_prepared_diagnostics, \* self.last_prepared_diagnostics
  parse_future,              \* self.parse_future
  completions_future,        \* self.completions_future
  diagnostic_store,          \* self.diagnostic_store
  missing_attrs,             \* attributes of self that no statement has set yet
  parse_orphans,             \* engine: running parses whose future was dropped
  completion_orphans,        \* engine: running queries whose future was dropped
  tu_diagnostics,            \* engine: latest diagnostics of each file's unit
  out                        \* the call that has just returned and its outcome

vars == << current, contents_holder, filename_holder,
           last_prepared_diagnostics, parse_future, completions_future,
           diagnostic_store, missing_attrs, parse_orphans,
           completion_orphans, tu_diagnostics, out >>

holders == << contents_holder, filename_holder >>
diagnostics_state == << last_prepared_diagnostics, diagnostic_store >>
parse_state == << parse_future, parse_orphans, tu_diagnostics >>
completion_state == << completions_future, completion_orphans >>

\* a handle field holds None or one future
None == << >>

(* ------------------------- outputs of a call --------------------------- *)

NoNotice == ""
StillParsingNotice == "Still parsing file, no completions yet."
NoFlagsNotice == "Still no compile flags, no completions yet."
NoCompletionsNotice == "No completions found; errors in the file?"
NoDiagnosticNotice == "No diagnostic for current line!"

NoException == ""
AttributeError == "AttributeError"

\* the outcome of a call: what it returned, the notice it posted through
\* PostVimMessage or EchoText, the exception it raised
ReturnsNone( notice ) ==
  [ kind |-> "None", val |-> << >>, notice |-> notice, exc |-> NoException ]

ReturnsBool( b ) ==
  [ kind |-> "bool", val |-> << b >>, notice |-> NoNotice,
    exc |-> NoException ]

ReturnsList( l, notice ) ==
  [ kind |-> "list", val |-> l, notice |-> notice, exc |-> NoException ]

Raises( e ) ==
  [ kind |-> "raise", val |-> << >>, notice |-> NoNotice, exc |-> e ]

\* the handler `op' was called with the inputs `args' and ended in `outcome'
Called( op, args, outcome ) ==
  [ op |-> op, args |-> args, kind |-> outcome.kind, val |-> outcome.val,
    notice |-> outcome.notice, exc |-> outcome.exc ]

\* no call has just returned
Idle == Called( "", << >>, ReturnsNone( NoNotice ) )

(* ------------------------------ helpers -------------------------------- *)

\* '\n'.join( buffer )
RECURSIVE Join( _ )
Join( lines ) ==
  IF lines = << >> THEN ""
  ELSE IF Len( lines ) = 1 THEN lines[ 1 ]
  ELSE lines[ 1 ] \o "\n" \o Join( Tail( lines ) )

\* vimsupport.GetUnsavedBuffers(): the current buffer, whose lines are
\* `lines', and three buffers GetUnsavedFilesVector has to skip
GetUnsavedBuffers( lines ) ==
  << [ number |-> 1, name |-> current, filetype |-> "cpp", lines |-> lines ],
     [ number |-> 3, name |-> "notes.txt", filetype |-> "text",
       lines |-> << "todo" >> ],
     [ number |-> 4, name |-> "", filetype |-> "cpp",
       lines |-> << "int y;" >> ],
     [ number |-> 5, name |-> "empty.c", filetype |-> "c",
       lines |-> << >> ] >>

ClangAvailableForBuffer( buffer_object ) ==
  buffer_object.filetype \in CLANG_FILETYPES

\* the loop of GetUnsavedFilesVector over the buffers not yet visited; acc
\* is the pair of holder lists built so far
RECURSIVE UnsavedFilesLoop( _, _ )
UnsavedFilesLoop( buffers, acc ) ==
  IF buffers = << >> THEN acc
  ELSE
    LET buffer == Head( buffers )
        contents == Join( buffer.lines )
        name == buffer.name
    IN IF ~ ClangAvailableForBuffer( buffer ) \/ contents = "" \/ name = ""
       THEN UnsavedFilesLoop( Tail( buffers ), acc )
       ELSE UnsavedFilesLoop( Tail( buffers ),
              [ contents |-> Append( acc.contents, contents ),
                names |-> Append( acc.names, name ) ] )

\* the holders GetUnsavedFilesVector leaves behind; the UnsavedFile vector it
\* returns points into exactly these strings
GetUnsavedFilesVector( lines ) ==
  UnsavedFilesLoop( GetUnsavedBuffers( lines ),
                    [ contents |-> << >>, names |-> << >> ] )

NumLinesInBuffer( lines ) == Len( lines )

(* ------------------------------ engine --------------------------------- *)

\* the task of UpdateTranslationUnitAsync( filename, files, flags ); batch
\* tells whether the strings `files' points into are still held
ParseTask( filename, batch ) ==
  [ state |-> "running", file |-> filename, batch |-> batch,
    diags |-> << >> ]

\* the task of CandidatesForQueryAndLocationInFileAsync; latest marks the
\* most recently dispatched query
CompletionTask( filename, batch ) ==
  [ state |-> "running", file |-> filename, batch |-> batch,
    results |-> << >>, latest |-> TRUE ]

\* the running task behind a handle, as a bag
RunningOf( future ) ==
  IF future # None /\ future[ 1 ].state = "running"
  THEN SetToBag( { future[ 1 ] } )
  ELSE EmptyBag

RunningParses == parse_orphans (+) RunningOf( parse_future )
RunningCompletions == completion_orphans (+) RunningOf( completions_future )

\* completer.UpdatingTranslationUnit( filename )
UpdatingTranslationUnit( filename ) ==
  \E task \in BagToSet( RunningParses ) : task.file = filename

\* completer.DiagnosticsForFile( filename )
DiagnosticsForFile( filename ) == tu_diagnostics[ filename ]

\* future.ResultsReady()
ResultsReady( future ) == future[ 1 ].state = "done"

\* the strings a task borrowed are gone once the holders are rebuilt
Dangling( task ) ==
  IF task.state = "running" /\ task.batch = "held"
  THEN [ task EXCEPT !.batch = "freed" ]
  ELSE task

DanglingFuture( future ) ==
  IF future = None THEN None ELSE << Dangling( future[ 1 ] ) >>

DanglingBag( B ) ==
  LET T == { Dangling( task ) : task \in BagToSet( B ) }
  IN [ t \in T |->
         CopiesIn( t, B )
         + ( IF t.batch = "freed"
             THEN CopiesIn( [ t EXCEPT !.batch = "held" ], B )
             ELSE 0 ) ]

BatchOf( holder ) == IF holder = << >> THEN "none" ELSE "held"

\* a query that a later dispatch superseded
Superseded( task ) == [ task EXCEPT !.latest = FALSE ]

SupersededBag( B ) ==
  LET T == { Superseded( task ) : task \in BagToSet( B ) }
  IN [ t \in T |->
         CopiesIn( t, B ) + CopiesIn( [ t EXCEPT !.latest = TRUE ], B ) ]

(* ------------------------------- Init ---------------------------------- *)

EmptyStructure ==
  [ f \in DiagFileNames |-> [ l \in DiagLineNumbers |-> << >> ] ]

Init ==
  /\ current \in Files
  /\ contents_holder = << >>
  /\ filename_holder = << >>
  /\ last_prepared_diagnostics = << >>
  /\ parse_future = None
  /\ completions_future = None
  /\ diagnostic_store = EmptyStructure
  /\ missing_attrs = { "completions_future", "diagnostic_store" }
  /\ parse_orphans = EmptyBag
  /\ completion_orphans = EmptyBag
  /\ tu_diagnostics = [ f \in Files |-> NoDiagnostics ]
  /\ out = Idle

(* --------------------------- pure functions ---------------------------- *)

CompletionDataToDict( completion_data ) ==
  [ word |-> completion_data.text_to_insert,
    abbr |-> completion_data.main_text,
    menu |-> completion_data.extra_menu_info,
    kind |-> completion_data.kind_,
    info |-> completion_data.detailed_info,
    dup |-> 1 ]

\* vim.eval( "bufnr('{0}', 1)" ): the number of the buffer of that name
BufNr( filename ) ==
  IF filename = "a.cpp" THEN 1
  ELSE IF filename = "b.cpp" THEN 2
  ELSE 6

DiagnosticToDict( diagnostic ) ==
  [ bufnr |-> BufNr( diagnostic.filename_ ),
    lnum |-> diagnostic.line_number_,
    col |-> diagnostic.column_number_,
    text |-> diagnostic.text_,
    type |-> diagnostic.kind_,
    valid |-> 1 ]

\* [ CompletionDataToDict( x ) for x in results ]
CompletionsToDicts( results ) ==
  [ i \in 1 .. Len( results ) |-> CompletionDataToDict( results[ i ] ) ]

\* [ DiagnosticToDict( x ) for x in diagnostics ]
DiagnosticsToDicts( diagnostics ) ==
  [ i \in 1 .. Len( diagnostics ) |-> DiagnosticToDict( diagnostics[ i ] ) ]

\* diagnostics[ : n ]
Prefix( s, n ) == SubSeq( s, 1, IF Len( s ) < n THEN Len( s ) ELSE n )

\* the loop of DiagnosticsToDiagStructure; a defaultdict of defaultdict( list )
\* is the total function that is the empty list wherever nothing was appended
RECURSIVE DiagStructureLoop( _, _ )
DiagStructureLoop( diagnostics, structure ) ==
  IF diagnostics = << >> THEN structure
  ELSE
    LET diagnostic == Head( diagnostics )
    IN DiagStructureLoop( Tail( diagnostics ),
         [ structure EXCEPT
             ![ diagnostic.filename_ ][ diagnostic.line_number_ ] =
               Append( @, diagnostic ) ] )

DiagnosticsToDiagStructure( diagnostics ) ==
  DiagStructureLoop( diagnostics, EmptyStructure )

\* structure[ file ][ line ] of the defaultdict
StoreLookup( structure, file, line ) ==
  IF file \in DOMAIN structure /\ line \in DOMAIN structure[ file ]
  THEN structure[ file ][ line ]
  ELSE << >>

Abs( n ) == IF n < 0 THEN 0 - n ELSE n

\* the loop of ShowDetailedDiagnostic; best.closest is empty for None
RECURSIVE ClosestLoop( _, _, _ )
ClosestLoop( diagnostics, current_column, best ) ==
  IF diagnostics = << >> THEN best
  ELSE
    LET diagnostic == Head( diagnostics )
        distance == Abs( current_column - diagnostic.column_number_ )
    IN ClosestLoop( Tail( diagnostics ), current_column,
         IF distance < best.distance
         THEN [ closest |-> << diagnostic >>, distance |-> distance ]
         ELSE best )

ClosestDiagnostic( diagnostics, current_column ) ==
  ClosestLoop( diagnostics, current_column,
               [ closest |-> << >>, distance |-> InitialDistance ] ).closest

(* --------------------------- the coordinator --------------------------- *)

\* a guard failure that leaves self.completions_future as it is
RefuseCompletions_KeepsHandle( args, notice ) ==
  /\ out' = Called( "CandidatesForQueryAsync", args, ReturnsNone( notice ) )
  /\ UNCHANGED << current, holders, diagnostics_state, parse_state,
                  completion_state, missing_attrs >>

\* self.completions_future = None on a guard failure
RefuseCompletions( args, notice ) ==
  /\ completions_future' = None
  /\ missing_attrs' = missing_attrs \ { "completions_future" }
  /\ completion_orphans' =
       completion_orphans (+) RunningOf( completions_future )
  /\ out' = Called( "CandidatesForQueryAsync", args, ReturnsNone( notice ) )
  /\ UNCHANGED << current, holders, diagnostics_state, parse_state >>

\* DispatchCompletions that dispatches but keeps a handle it already stores
DispatchCompletions_KeepsStoredHandle( query, filename, lines, flags ) ==
  /\ BagCardinality( RunningCompletions ) < MaxRunningCompletions
  /\ LET fresh == GetUnsavedFilesVector( lines )
         rebuilt == ( query = EmptyQuery )
         new == CompletionTask( filename,
                  IF rebuilt THEN BatchOf( fresh.contents ) ELSE "none" )
         others == SupersededBag( completion_orphans )
         kept == Superseded( completions_future[ 1 ] )
     IN /\ contents_holder' =
             IF rebuilt THEN fresh.contents ELSE contents_holder
        /\ filename_holder' =
             IF rebuilt THEN fresh.names ELSE filename_holder
        /\ parse_future' =
             IF rebuilt THEN DanglingFuture( parse_future ) ELSE parse_future
        /\ parse_orphans' =
             IF rebuilt THEN DanglingBag( parse_orphans ) ELSE parse_orphans
        /\ completion_orphans' =
             ( IF rebuilt THEN DanglingBag( others ) ELSE others )
             (+) ( IF completions_future = None THEN EmptyBag
                   ELSE SetToBag( { new } ) )
        /\ completions_future' =
             IF completions_future = None THEN << new >>
             ELSE IF rebuilt THEN << Dangling( kept ) >> ELSE << kept >>
  /\ missing_attrs' = missing_attrs \ { "completions_future" }
  /\ out' = Called( "CandidatesForQueryAsync", << query, flags >>,
                   ReturnsNone( NoNotice ) )
  /\ UNCHANGED << current, diagnostics_state, tu_diagnostics >>

\* self.completions_future =
\*   completer.CandidatesForQueryAndLocationInFileAsync( query, filename, ... )
DispatchCompletions( query, filename, lines, flags ) ==
  /\ BagCardinality( RunningCompletions ) < MaxRunningCompletions
  /\ LET fresh == GetUnsavedFilesVector( lines )
         rebuilt == ( query = EmptyQuery )
         others == SupersededBag( RunningCompletions )
     IN /\ contents_holder' =
             IF rebuilt THEN fresh.contents ELSE contents_holder
        /\ filename_holder' =
             IF rebuilt THEN fresh.names ELSE filename_holder
        /\ parse_future' =
             IF rebuilt THEN DanglingFuture( parse_future ) ELSE parse_future
        /\ parse_orphans' =
             IF rebuilt THEN DanglingBag( parse_orphans ) ELSE parse_orphans
        /\ completion_orphans' =
             IF rebuilt THEN DanglingBag( others ) ELSE others
        /\ completions_future' =
             << CompletionTask( filename,
                  IF rebuilt THEN BatchOf( fresh.contents ) ELSE "none" ) >>
  /\ missing_attrs' = missing_attrs \ { "completions_future" }
  /\ out' = Called( "CandidatesForQueryAsync", << query, flags >>,
                   ReturnsNone( NoNotice ) )
  /\ UNCHANGED << current, diagnostics_state, tu_diagnostics >>

\* CandidatesForQueryAsync without its UpdatingTranslationUnit guard
CandidatesForQueryAsync_NoUpdatingGuard( query, lines, flags ) ==
  IF flags = NoFlags
  THEN RefuseCompletions( << query, flags >>, NoFlagsNotice )
  ELSE DispatchCompletions( query, current, lines, flags )

\* CandidatesForQueryAsync without its flags guard
CandidatesForQueryAsync_NoFlagsGuard( query, lines, flags ) ==
  IF UpdatingTranslationUnit( current )
  THEN RefuseCompletions( << query, flags >>, StillParsingNotice )
  ELSE DispatchCompletions( query, current, lines, flags )

\* lines: the lines of the current buffer; flags: what FlagsForFile returns
CandidatesForQueryAsync( query, lines, flags ) ==
  LET filename == current
  IN IF UpdatingTranslationUnit( filename )
     THEN RefuseCompletions( << query, flags >>, StillParsingNotice )
     ELSE IF flags = NoFlags
     THEN RefuseCompletions( << query, flags >>, NoFlagsNotice )
     ELSE DispatchCompletions( query, filename, lines, flags )

\* GetResults() joins the engine: the call returns once the task is done
CandidatesFromStoredRequest ==
  /\ IF "completions_future" \in missing_attrs
     THEN out' = Called( "CandidatesFromStoredRequest", << >>,
                         Raises( AttributeError ) )
     ELSE IF completions_future = None
     THEN out' = Called( "CandidatesFromStoredRequest", << >>,
                         ReturnsList( << >>, NoNotice ) )
     ELSE /\ completions_future[ 1 ].state = "done"
          /\ LET results ==
                   CompletionsToDicts( completions_future[ 1 ].results )
             IN out' = Called( "CandidatesFromStoredRequest", << >>,
                          ReturnsList( results,
                            IF results = << >> THEN NoCompletionsNotice
                            ELSE NoNotice ) )
  /\ UNCHANGED << current, holders, diagnostics_state, parse_state,
                  completion_state, missing_attrs >>

\* self.parse_future = None
ClearParseFuture ==
  /\ parse_future' = None
  /\ parse_orphans' = parse_orphans (+) RunningOf( parse_future )
  /\ UNCHANGED << holders, completion_state >>

\* self.parse_future = completer.UpdateTranslationUnitAsync( filename,
\*   self.GetUnsavedFilesVector(), flags )
DispatchParse( filename, lines ) ==
  /\ BagCardinality( RunningParses ) < MaxRunningParses
  /\ LET fresh == GetUnsavedFilesVector( lines )
     IN /\ contents_holder' = fresh.contents
        /\ filename_holder' = fresh.names
        /\ completions_future' = DanglingFuture( completions_future )
        /\ completion_orphans' = DanglingBag( completion_orphans )
        /\ parse_orphans' = DanglingBag( RunningParses )
        /\ parse_future' =
             << ParseTask( filename, BatchOf( fresh.contents ) ) >>

\* OnFileReadyToParse without its UpdatingTranslationUnit guard
OnFileReadyToParse_NoUpdatingGuard( lines, flags ) ==
  /\ IF NumLinesInBuffer( lines ) < MinLinesToParse
     THEN ClearParseFuture
     ELSE IF flags = NoFlags
     THEN ClearParseFuture
     ELSE DispatchParse( current, lines )
  /\ out' = Called( "OnFileReadyToParse", << Len( lines ), flags >>,
                   ReturnsNone( NoNotice ) )
  /\ UNCHANGED << current, diagnostics_state, missing_attrs,
                  tu_diagnostics >>

\* OnFileReadyToParse that takes a stored handle for a parse in flight
OnFileReadyToParse_BusyWhileStored( lines, flags ) ==
  /\ IF NumLinesInBuffer( lines ) < MinLinesToParse
     THEN ClearParseFuture
     ELSE IF parse_future # None
     THEN UNCHANGED << holders, parse_future, parse_orphans,
                       completion_state >>
     ELSE IF flags = NoFlags
     THEN ClearParseFuture
     ELSE DispatchParse( current, lines )
  /\ out' = Called( "OnFileReadyToParse", << Len( lines ), flags >>,
                   ReturnsNone( NoNotice ) )
  /\ UNCHANGED << current, diagnostics_state, missing_attrs,
                  tu_diagnostics >>

\* OnFileReadyToParse that tests UpdatingTranslationUnit before the line count
OnFileReadyToParse_UpdatingGuardFirst( lines, flags ) ==
  /\ IF UpdatingTranslationUnit( current )
     THEN UNCHANGED << holders, parse_future, parse_orphans,
                       completion_state >>
     ELSE IF NumLinesInBuffer( lines ) < MinLinesToParse
     THEN ClearParseFuture
     ELSE IF flags = NoFlags
     THEN ClearParseFuture
     ELSE DispatchParse( current, lines )
  /\ out' = Called( "OnFileReadyToParse", << Len( lines ), flags >>,
                   ReturnsNone( NoNotice ) )
  /\ UNCHANGED << current, diagnostics_state, missing_attrs,
                  tu_diagnostics >>

\* lines: the lines of the current buffer; flags: what FlagsForFile returns
OnFileReadyToParse( lines, flags ) ==
  /\ IF NumLinesInBuffer( lines ) < MinLinesToParse
     THEN ClearParseFuture
     ELSE LET filename == current
          IN IF UpdatingTranslationUnit( filename )
             THEN UNCHANGED << holders, parse_future, parse_orphans,
                               completion_state >>
             ELSE IF flags = NoFlags
             THEN ClearParseFuture
             ELSE DispatchParse( filename, lines )
  /\ out' = Called( "OnFileReadyToParse", << Len( lines ), flags >>,
                   ReturnsNone( NoNotice ) )
  /\ UNCHANGED << current, diagnostics_state, missing_attrs,
                  tu_diagnostics >>

\* the value DiagnosticsForCurrentFileReady returns
DiagnosticsReady ==
  IF parse_future = None THEN FALSE ELSE ResultsReady( parse_future )

\* DiagnosticsForCurrentFileReady that drops the handle once it is ready
DiagnosticsForCurrentFileReady_Consuming ==
  /\ out' = Called( "DiagnosticsForCurrentFileReady", << >>,
                   ReturnsBool( DiagnosticsReady ) )
  /\ parse_future' = IF DiagnosticsReady THEN None ELSE parse_future
  /\ UNCHANGED << current, holders, diagnostics_state, parse_orphans,
                  tu_diagnostics, completion_state, missing_attrs >>

DiagnosticsForCurrentFileReady ==
  /\ out' = Called( "DiagnosticsForCurrentFileReady", << >>,
                   ReturnsBool( DiagnosticsReady ) )
  /\ UNCHANGED << current, holders, diagnostics_state, parse_state,
                  completion_state, missing_attrs >>

\* GetDiagnosticsForCurrentFile that replaces only the entries of the files
\* the new diagnostics name and of the current file
GetDiagnosticsForCurrentFile_MergesIndex ==
  /\ IF DiagnosticsReady
     THEN LET diagnostics == DiagnosticsForFile( current )
              fresh == DiagnosticsToDiagStructure( diagnostics )
          IN /\ diagnostic_store' =
                  [ f \in DiagFileNames |->
                      IF f = current \/ fresh[ f ] # EmptyStructure[ f ]
                      THEN fresh[ f ] ELSE diagnostic_store[ f ] ]
             /\ missing_attrs' = missing_attrs \ { "diagnostic_store" }
             /\ last_prepared_diagnostics' =
                  DiagnosticsToDicts(
                    Prefix( diagnostics, MAX_DIAGNOSTICS_TO_DISPLAY ) )
             /\ parse_future' = None
     ELSE UNCHANGED << diagnostic_store, missing_attrs,
                       last_prepared_diagnostics, parse_future >>
  /\ out' = Called( "GetDiagnosticsForCurrentFile", << >>,
                   ReturnsList( last_prepared_diagnostics', NoNotice ) )
  /\ UNCHANGED << current, holders, parse_orphans, tu_diagnostics,
                  completion_state >>

\* GetDiagnosticsForCurrentFile that keeps the handle it has consumed
GetDiagnosticsForCurrentFile_KeepsHandle ==
  /\ IF DiagnosticsReady
     THEN LET diagnostics == DiagnosticsForFile( current )
          IN /\ diagnostic_store' = DiagnosticsToDiagStructure( diagnostics )
             /\ missing_attrs' = missing_attrs \ { "diagnostic_store" }
             /\ last_prepared_diagnostics' =
                  DiagnosticsToDicts(
                    Prefix( diagnostics, MAX_DIAGNOSTICS_TO_DISPLAY ) )
             /\ parse_future' = parse_future
     ELSE UNCHANGED << diagnostic_store, missing_attrs,
                       last_prepared_diagnostics, parse_future >>
  /\ out' = Called( "GetDiagnosticsForCurrentFile", << >>,
                   ReturnsList( last_prepared_diagnostics', NoNotice ) )
  /\ UNCHANGED << current, holders, parse_orphans, tu_diagnostics,
                  completion_state >>

\* GetDiagnosticsForCurrentFile that drops a handle whose result is not ready
GetDiagnosticsForCurrentFile_DropsUnready ==
  /\ IF DiagnosticsReady
     THEN LET diagnostics == DiagnosticsForFile( current )
          IN /\ diagnostic_store' = DiagnosticsToDiagStructure( diagnostics )
             /\ missing_attrs' = missing_attrs \ { "diagnostic_store" }
             /\ last_prepared_diagnostics' =
                  DiagnosticsToDicts(
                    Prefix( diagnostics, MAX_DIAGNOSTICS_TO_DISPLAY ) )
             /\ parse_future' = None
             /\ UNCHANGED parse_orphans
     ELSE /\ parse_future' = None
          /\ parse_orphans' = parse_orphans (+) RunningOf( parse_future )
          /\ UNCHANGED << diagnostic_store, missing_attrs,
                          last_prepared_diagnostics >>
  /\ out' = Called( "GetDiagnosticsForCurrentFile", << >>,
                   ReturnsList( last_prepared_diagnostics', NoNotice ) )
  /\ UNCHANGED << current, holders, tu_diagnostics, completion_state >>

GetDiagnosticsForCurrentFile ==
  /\ IF DiagnosticsReady
     THEN LET diagnostics == DiagnosticsForFile( current )
          IN /\ diagnostic_store' = DiagnosticsToDiagStructure( diagnostics )
             /\ missing_attrs' = missing_attrs \ { "diagnostic_store" }
             /\ last_prepared_diagnostics' =
                  DiagnosticsToDicts(
                    Prefix( diagnostics, MAX_DIAGNOSTICS_TO_DISPLAY ) )
             /\ parse_future' = None
     ELSE UNCHANGED << diagnostic_store, missing_attrs,
                       last_prepared_diagnostics, parse_future >>
  /\ out' = Called( "GetDiagnosticsForCurrentFile", << >>,
                   ReturnsList( last_prepared_diagnostics', NoNotice ) )
  /\ UNCHANGED << current, holders, parse_orphans, tu_diagnostics,
                  completion_state >>

\* line and column are what vimsupport.CurrentLineAndColumn() returns
ShowDetailedDiagnostic( line, column ) ==
  /\ LET Outcome( outcome ) ==
           Called( "ShowDetailedDiagnostic", << line, column >>, outcome )
         current_line == line + 1
         current_column == column + 1
         current_file == current
     IN IF "diagnostic_store" \in missing_attrs
        THEN out' = Outcome( Raises( AttributeError ) )
        ELSE LET diagnostics ==
                   StoreLookup( diagnostic_store, current_file, current_line )
                 closest_diagnostic ==
                   ClosestDiagnostic( diagnostics, current_column )
             IN IF diagnostics = << >>
                THEN out' = Outcome( ReturnsNone( NoDiagnosticNotice ) )
                ELSE IF closest_diagnostic = << >>
                THEN out' = Outcome( Raises( AttributeError ) )
                ELSE out' = Outcome( ReturnsNone(
                              closest_diagnostic[ 1 ].long_formatted_text_ ) )
  /\ UNCHANGED << current, holders, diagnostics_state, parse_state,
                  completion_state, missing_attrs >>

\* ShouldUseClang that looks at the character two places before start_column
ShouldUseClang_ColumnAfter( line, start_column ) ==
  LET previous_char_index == start_column - 2
  IN IF \/ Len( line ) = 0
        \/ previous_char_index < 0
        \/ previous_char_index >= Len( line )
     THEN FALSE
     ELSE IF line[ previous_char_index + 1 ] = "."
     THEN TRUE
     ELSE IF previous_char_index - 1 < 0
     THEN FALSE
     ELSE LET two_previous_chars ==
                SubSeq( line, previous_char_index, previous_char_index + 1 )
          IN \/ two_previous_chars = << "-", ">" >>
             \/ two_previous_chars = << ":", ":" >>

\* line is vim.current.line; the Python index i is the index i + 1 here, the
\* slice line[ a : b ] is SubSeq( line, a + 1, b )
ShouldUseClang( line, start_column ) ==
  LET previous_char_index == start_column - 1
  IN IF \/ Len( line ) = 0
        \/ previous_char_index < 0
        \/ previous_char_index >= Len( line )
     THEN FALSE
     ELSE IF line[ previous_char_index + 1 ] = "."
     THEN TRUE
     ELSE IF previous_char_index - 1 < 0
     THEN FALSE
     ELSE LET two_previous_chars ==
                SubSeq( line, previous_char_index, start_column )
          IN \/ two_previous_chars = << "-", ">" >>
             \/ two_previous_chars = << ":", ":" >>

\* line is what vim.current.line answers during the call
ShouldUseNow( line, start_column ) ==
  /\ out' = Called( "ShouldUseNow", << line, start_column >>,
                   ReturnsBool( ShouldUseClang( line, start_column ) ) )
  /\ UNCHANGED << current, holders, diagnostics_state, parse_state,
                  completion_state, missing_attrs >>

(* --------------------------- the environment --------------------------- *)

\* the user moves to another buffer
SwitchBuffer( f ) ==
  /\ f # current
  /\ current' = f
  /\ out' = Idle
  /\ UNCHANGED << holders, diagnostics_state, parse_state, completion_state,
                  missing_attrs >>

\* the engine finishes the translation unit update behind self.parse_future
HeldParseCompletes( diagnostics ) ==
  /\ parse_future # None
  /\ parse_future[ 1 ].state = "running"
  /\ diagnostics \in DiagLists( parse_future[ 1 ].file )
  /\ tu_diagnostics' =
       [ tu_diagnostics EXCEPT ![ parse_future[ 1 ].file ] = diagnostics ]
  /\ parse_future' =
       << [ state |-> "done", file |-> parse_future[ 1 ].file,
            batch |-> "none", diags |-> diagnostics ] >>
  /\ out' = Idle
  /\ UNCHANGED << current, holders, diagnostics_state, parse_orphans,
                  completion_state, missing_attrs >>

\* the engine finishes a translation unit update whose future was dropped
OrphanParseCompletes( task, diagnostics ) ==
  /\ BagIn( task, parse_orphans )
  /\ diagnostics \in DiagLists( task.file )
  /\ tu_diagnostics' = [ tu_diagnostics EXCEPT ![ task.file ] = diagnostics ]
  /\ parse_orphans' = parse_orphans (-) SetToBag( { task } )
  /\ out' = Idle
  /\ UNCHANGED << current, holders, diagnostics_state, parse_future,
                  completion_state, missing_attrs >>

\* the engine finishes the query behind self.completions_future
HeldCompletionCompletes( results ) ==
  /\ completions_future # None
  /\ completions_future[ 1 ].state = "running"
  /\ completions_future' =
       << [ completions_future[ 1 ] EXCEPT
              !.state = "done", !.batch = "none", !.results = results ] >>
  /\ out' = Idle
  /\ UNCHANGED << current, holders, diagnostics_state, parse_state,
                  completion_orphans, missing_attrs >>

\* the engine finishes a query whose future was dropped
OrphanCompletionCompletes( task ) ==
  /\ BagIn( task, completion_orphans )
  /\ completion_orphans' = completion_orphans (-) SetToBag( { task } )
  /\ out' = Idle
  /\ UNCHANGED << current, holders, diagnostics_state, parse_state,
                  completions_future, missing_attrs >>

(* ------------------------------- Next ---------------------------------- *)

\* Every handler of the coordinator, interleaved with the engine and the
\* user.  The parses of this specification find no diagnostics and the cursor
\* stays where it is; the content of the diagnostics and the cursor positions
\* are explored by SpecDiagnostics below.
Next ==
  \/ \E query \in Queries, lines \in LineChoices, flags \in FlagChoices :
       CandidatesForQueryAsync( query, lines, flags )
  \/ CandidatesFromStoredRequest
  \/ \E lines \in LineChoices, flags \in FlagChoices :
       OnFileReadyToParse( lines, flags )
  \/ DiagnosticsForCurrentFileReady
  \/ GetDiagnosticsForCurrentFile
  \/ ShowDetailedDiagnostic( 2, 5 )
  \/ \E f \in Files : SwitchBuffer( f )
  \/ HeldParseCompletes( NoDiagnostics )
  \/ \E task \in BagToSet( parse_orphans ) :
       OrphanParseCompletes( task, NoDiagnostics )
  \/ \E results \in CompletionLists : HeldCompletionCompletes( results )
  \/ \E task \in BagToSet( completion_orphans ) :
       OrphanCompletionCompletes( task )

Spec == Init /\ [][Next]_vars

\* The parse and diagnostics path on its own: the handlers that read or write
\* the parse handle, the index and the cached list, with every diagnostic
\* list the engine can answer.  The completion handlers write none of these.
NextDiagnostics ==
  \/ \E lines \in LineChoices, flags \in FlagChoices :
       OnFileReadyToParse( lines, flags )
  \/ DiagnosticsForCurrentFileReady
  \/ GetDiagnosticsForCurrentFile
  \/ \E line \in CursorLines, column \in CursorColumns :
       ShowDetailedDiagnostic( line, column )
  \/ \E f \in Files : SwitchBuffer( f )
  \/ \E f \in Files : \E diagnostics \in DiagLists( f ) :
       HeldParseCompletes( diagnostics )
  \/ \E task \in BagToSet( parse_orphans ) :
       \E diagnostics \in DiagLists( task.file ) :
         OrphanParseCompletes( task, diagnostics )

SpecDiagnostics == Init /\ [][NextDiagnostics]_vars

\* the engine finishes the translation unit update of file f
ParseCompletes( f ) ==
  \/ /\ parse_future # None
     /\ parse_future[ 1 ].file = f
     /\ \E diagnostics \in DiagLists( f ) : HeldParseCompletes( diagnostics )
  \/ \E task \in BagToSet( parse_orphans ) :
       /\ task.file = f
       /\ \E diagnostics \in DiagLists( f ) :
            OrphanParseCompletes( task, diagnostics )

\* The parse and diagnostics path with an engine that finishes every update
\* it was handed and an editor loop that keeps calling
\* GetDiagnosticsForCurrentFile.
SpecDiagnosticsFair ==
  /\ SpecDiagnostics
  /\ \A f \in Files : WF_vars( ParseCompletes( f ) )
  /\ WF_vars( GetDiagnosticsForCurrentFile )

\* The trigger heuristic on its own: ShouldUseNow reads and writes no field of
\* the coordinator, so it is explored over every line text and start column
\* from the state after construction.
NextTrigger ==
  \E line \in LineTexts, start_column \in StartColumns :
    ShouldUseNow( line, start_column )

SpecTrigger == Init /\ [][NextTrigger]_vars

(* ------------------------------ properties ----------------------------- *)

\* the tasks of bag B that work on file f
OfFile( B, f ) ==
  LET S == { task \in BagToSet( B ) : task.file = f }
  IN [ task \in S |-> CopiesIn( task, B ) ]

ParsesInFlight( f ) == BagCardinality( OfFile( RunningParses, f ) )
CompletionsInFlight( f ) == BagCardinality( OfFile( RunningCompletions, f ) )

OneParsePerFile == \A f \in Files : ParsesInFlight( f ) <= 1

\* the step is a call of OnFileReadyToParse
IsOnFileReadyToParse ==
  \E lines \in LineChoices, flags \in FlagChoices :
    OnFileReadyToParse( lines, flags )

\* the step hands no new task to the engine
NothingDispatched ==
  /\ RunningParses' = RunningParses
  /\ RunningCompletions' = RunningCompletions

\* C1 as stated: OnFileReadyToParse for a file whose parse is in flight
\* dispatches nothing and leaves the parse handle unchanged, and at most one
\* parse per file is ever in flight.
C1_Original ==
  /\ [][ ( UpdatingTranslationUnit( current ) /\ IsOnFileReadyToParse )
         => ( NothingDispatched /\ parse_future' = parse_future ) ]_vars
  /\ []OneParsePerFile

\* C1 amended: OnFileReadyToParse for a file whose parse is in flight
\* dispatches nothing; it leaves the parse handle unchanged when the buffer
\* has at least 5 lines and clears it when the buffer has fewer; at most one
\* parse per file is ever in flight.
C1_NoOpWhileParsing ==
  /\ [][ ( UpdatingTranslationUnit( current ) /\ IsOnFileReadyToParse )
         => /\ NothingDispatched
            /\ parse_future' =
                 IF out'.args[ 1 ] >= MinLinesToParse THEN parse_future
                 ELSE None ]_vars
  /\ []OneParsePerFile

\* OnFileReadyToParse has just returned for a buffer of 5 lines whose parse is
\* in flight as an orphan, and the handle still holds the other file's future
C1_Witness ==
  /\ out.op = "OnFileReadyToParse"
  /\ out.args[ 1 ] >= MinLinesToParse
  /\ UpdatingTranslationUnit( current )
  /\ parse_future # None
  /\ parse_future[ 1 ].file # current

\* C2 as stated: at most one parse and at most one completion are in flight
\* in the engine, over all files.
C2_Original ==
  /\ BagCardinality( RunningParses ) <= 1
  /\ BagCardinality( RunningCompletions ) <= 1

\* the running completions that no later dispatch superseded
LatestCompletions ==
  LET S == { task \in BagToSet( RunningCompletions ) : task.latest }
  IN [ task \in S |-> CopiesIn( task, RunningCompletions ) ]

\* C2 amended: the parses in flight work on pairwise different files, so
\* there are never more of them than files, and at most one completion in
\* flight is the most recently requested one; parses of different files and
\* completions superseded by later requests can be in flight together.
C2_InFlightPerFile ==
  /\ \A f \in Files : ParsesInFlight( f ) <= 1
  /\ BagCardinality( RunningParses ) <= Cardinality( Files )
  /\ BagCardinality( LatestCompletions ) <= 1

\* two parses and two completions are in flight at once
C2_Witness ==
  /\ BagCardinality( RunningParses ) = 2
  /\ BagCardinality( RunningCompletions ) = 2

\* the step is a call of CandidatesForQueryAsync
IsCandidatesForQueryAsync ==
  \E query \in Queries, lines \in LineChoices, flags \in FlagChoices :
    CandidatesForQueryAsync( query, lines, flags )

\* C3: CandidatesForQueryAsync for a file whose parse is in flight posts the
\* "still parsing" notice, returns None, stores no handle and dispatches
\* nothing, whatever the query and the flags.
C3_RefusedWhileParsing ==
  [][ ( UpdatingTranslationUnit( current ) /\ IsCandidatesForQueryAsync )
      => /\ out'.notice = StillParsingNotice
         /\ out'.kind = "None"
         /\ completions_future' = None
         /\ NothingDispatched ]_vars

\* CandidatesForQueryAsync has just refused a query for a file being parsed
C3_Witness ==
  /\ out.op = "CandidatesForQueryAsync"
  /\ out.notice = StillParsingNotice
  /\ UpdatingTranslationUnit( current )

\* C4: no engine call is in flight whose snapshot strings the holders have
\* already let go.
C4_BatchRetained ==
  /\ \A task \in BagToSet( RunningParses ) : task.batch # "freed"
  /\ \A task \in BagToSet( RunningCompletions ) : task.batch # "freed"

\* the diagnostics of list ds that file f has on line l, in their order
OnLine( ds, f, l ) ==
  SelectSeq( ds, LAMBDA d : d.filename_ = f /\ d.line_number_ = l )

\* C5: when GetDiagnosticsForCurrentFile consumes the parse dispatched for
\* file F, the index entry of F becomes exactly the diagnostics of that parse
\* in F, line by line and in their order.
C5_IndexMatchesParse ==
  [][ ( DiagnosticsReady /\ GetDiagnosticsForCurrentFile )
      => LET F == parse_future[ 1 ].file
             found == parse_future[ 1 ].diags
         IN /\ "diagnostic_store" \notin missing_attrs'
            /\ \A l \in DiagLineNumbers :
                 StoreLookup( diagnostic_store', F, l ) = OnLine( found, F, l )
    ]_vars

\* C6: the stored completion handle is always the most recently dispatched
\* query, and what CandidatesFromStoredRequest returns from a handle are the
\* results of that query; a superseded query's results are never returned.
C6_OnlyLatestResults ==
  /\ completions_future # None => completions_future[ 1 ].latest
  /\ ( out.op = "CandidatesFromStoredRequest" /\ completions_future # None )
       => /\ out.kind = "list"
          /\ completions_future[ 1 ].latest
          /\ out.val = CompletionsToDicts( completions_future[ 1 ].results )

\* CandidatesFromStoredRequest has just returned the candidates of the latest
\* query while a superseded query is still in flight
C6_Witness ==
  /\ out.op = "CandidatesFromStoredRequest"
  /\ out.kind = "list"
  /\ out.val # << >>
  /\ \E task \in BagToSet( completion_orphans ) : ~ task.latest

\* C7 as stated: with no flags for the current file, CandidatesForQueryAsync
\* posts the "no compile flags" notice and stores no handle,
\* OnFileReadyToParse clears the parse handle, neither dispatches and
\* neither raises.
C7_Original ==
  [][ \A query \in Queries, lines \in LineChoices :
        /\ CandidatesForQueryAsync( query, lines, NoFlags )
             => /\ NothingDispatched
                /\ out'.notice = NoFlagsNotice
                /\ out'.kind = "None"
                /\ completions_future' = None
        /\ OnFileReadyToParse( lines, NoFlags )
             => /\ NothingDispatched
                /\ out'.kind = "None"
                /\ parse_future' = None ]_vars

\* C7 amended: with no flags for the current file neither handler dispatches
\* or raises.  Unless a parse of the current file is in flight,
\* CandidatesForQueryAsync posts the "no compile flags" notice and
\* OnFileReadyToParse clears the parse handle; while one is in flight,
\* CandidatesForQueryAsync posts the "still parsing" notice instead and
\* OnFileReadyToParse on a buffer of at least 5 lines leaves the handle as
\* it is.  CandidatesForQueryAsync stores no handle in either case.
C7_NoFlagsNoDispatch ==
  [][ \A query \in Queries, lines \in LineChoices :
        /\ CandidatesForQueryAsync( query, lines, NoFlags )
             => /\ NothingDispatched
                /\ out'.notice = IF UpdatingTranslationUnit( current )
                                 THEN StillParsingNotice ELSE NoFlagsNotice
                /\ out'.kind = "None"
                /\ completions_future' = None
        /\ OnFileReadyToParse( lines, NoFlags )
             => /\ NothingDispatched
                /\ out'.kind = "None"
                /\ parse_future' =
                     IF /\ UpdatingTranslationUnit( current )
                        /\ Len( lines ) >= MinLinesToParse
                     THEN parse_future ELSE None ]_vars

\* CandidatesForQueryAsync has just refused a query for want of flags and
\* dropped the handle of an earlier query that is still in flight
C7_Witness ==
  /\ out.op = "CandidatesForQueryAsync"
  /\ out.notice = NoFlagsNotice
  /\ completions_future = None
  /\ completion_orphans # EmptyBag

\* C8: CandidatesFromStoredRequest called while no completion handle is
\* stored, the state after construction included, returns the empty list
\* and raises nothing.
C8_EmptyWhenNothingPending ==
  [][ ( completions_future = None /\ CandidatesFromStoredRequest )
      => /\ out'.kind = "list"
         /\ out'.val = << >>
         /\ out'.exc = NoException ]_vars

\* C9: ShowDetailedDiagnostic called while the index has no diagnostic for
\* the current file and line, the state before any consumption included,
\* posts the "no diagnostic" notice and raises nothing.
C9_NoDiagnosticNotice ==
  [][ \A line \in CursorLines, column \in CursorColumns :
        ( /\ ShowDetailedDiagnostic( line, column )
          /\ \/ "diagnostic_store" \in missing_attrs
             \/ StoreLookup( diagnostic_store, current, line + 1 ) = << >> )
        => /\ out'.notice = NoDiagnosticNotice
           /\ out'.exc = NoException ]_vars

\* C10: DiagnosticsForCurrentFileReady returns true exactly when a parse
\* handle is stored and its task is done, and it leaves the handle, the index
\* and the cached list as they are.
C10_ReadyIsPure ==
  [][ DiagnosticsForCurrentFileReady
      => /\ out'.kind = "bool"
         /\ out'.val = << parse_future # None
                          /\ parse_future[ 1 ].state = "done" >>
         /\ UNCHANGED << parse_future, diagnostic_store, missing_attrs,
                         last_prepared_diagnostics >> ]_vars

\* DiagnosticsForCurrentFileReady has just returned true while the index
\* holds the diagnostics of an earlier parse
C10_Witness ==
  /\ out.op = "DiagnosticsForCurrentFileReady"
  /\ out.val = << TRUE >>
  /\ diagnostic_store # EmptyStructure
  /\ last_prepared_diagnostics # << >>

\* C11: GetDiagnosticsForCurrentFile called while no parse result is ready (no
\* handle, or a handle whose task still runs) returns the list cached by the
\* last consumption, the empty list if nothing was consumed yet, raises
\* nothing and leaves the parse handle, the index and the cached list alone.
C11_NotReadyReturnsCache ==
  [][ ( ~ DiagnosticsReady /\ GetDiagnosticsForCurrentFile )
      => /\ out'.kind = "list"
         /\ out'.val = last_prepared_diagnostics
         /\ "diagnostic_store" \in missing_attrs => out'.val = << >>
         /\ UNCHANGED << parse_future, parse_orphans, diagnostic_store,
                         missing_attrs, last_prepared_diagnostics >> ]_vars

\* GetDiagnosticsForCurrentFile has just returned the cached diagnostics of an
\* earlier parse while the next parse is still running behind the handle
C11_Witness ==
  /\ out.op = "GetDiagnosticsForCurrentFile"
  /\ parse_future # None
  /\ parse_future[ 1 ].state = "running"
  /\ out.val # << >>
  /\ out.val = last_prepared_diagnostics

\* C12: the index and the cached list are written only by a
\* GetDiagnosticsForCurrentFile call made while the handle's task is done; that
\* call replaces both from the engine's answer and sets the handle to None, so
\* a done handle is consumed at most once; the handle becomes ready only
\* through the task it holds, and an empty handle is filled only by an
\* OnFileReadyToParse call that dispatches, so DiagnosticsForCurrentFileReady
\* stays false from a consumption until then.
C12_ConsumedOnce ==
  [][ /\ ( diagnostics_state' # diagnostics_state
           \/ ( "diagnostic_store" \in missing_attrs
                /\ "diagnostic_store" \notin missing_attrs' ) )
        => ( DiagnosticsReady /\ GetDiagnosticsForCurrentFile )
      /\ ( DiagnosticsReady /\ GetDiagnosticsForCurrentFile )
        => /\ diagnostic_store' =
                DiagnosticsToDiagStructure( DiagnosticsForFile( current ) )
           /\ last_prepared_diagnostics' =
                DiagnosticsToDicts( Prefix( DiagnosticsForFile( current ),
                                            MAX_DIAGNOSTICS_TO_DISPLAY ) )
           /\ out'.val = last_prepared_diagnostics'
           /\ parse_future' = None
           /\ ~ DiagnosticsReady'
      /\ ( ~ DiagnosticsReady /\ DiagnosticsReady' )
        => ( parse_future # None /\ parse_future[ 1 ].state = "running" )
      /\ ( parse_future = None /\ parse_future' # None )
        => /\ IsOnFileReadyToParse
           /\ parse_future'[ 1 ].state = "running"
           /\ BagCardinality( RunningParses' )
                = BagCardinality( RunningParses ) + 1 ]_vars

\* GetDiagnosticsForCurrentFile has just consumed a parse that found
\* diagnostics: the index and the cached list hold them, the handle is empty
C12_Witness ==
  /\ out.op = "GetDiagnosticsForCurrentFile"
  /\ parse_future = None
  /\ DiagnosticsForFile( current ) # NoDiagnostics
  /\ diagnostic_store =
       DiagnosticsToDiagStructure( DiagnosticsForFile( current ) )
  /\ out.val = last_prepared_diagnostics
  /\ Len( out.val ) = MAX_DIAGNOSTICS_TO_DISPLAY

\* C13: when the index entry for the current file and the 1-based cursor line
\* is not empty, ShowDetailedDiagnostic raises nothing and displays the long
\* text of the entry's diagnostic whose column is nearest to the 1-based
\* cursor column, the earliest in index order among the nearest, for every
\* cursor column and every diagnostic column.
C13_NearestDiagnostic ==
  [][ \A line \in CursorLines, column \in CursorColumns :
        ( /\ ShowDetailedDiagnostic( line, column )
          /\ "diagnostic_store" \notin missing_attrs
          /\ StoreLookup( diagnostic_store, current, line + 1 ) # << >> )
        => LET entry == StoreLookup( diagnostic_store, current, line + 1 )
               Distance( i ) ==
                 Abs( ( column + 1 ) - entry[ i ].column_number_ )
               nearest ==
                 CHOOSE i \in 1 .. Len( entry ) :
                   \A j \in 1 .. Len( entry ) :
                     /\ Distance( i ) <= Distance( j )
                     /\ Distance( j ) = Distance( i ) => i <= j
           IN /\ out'.exc = NoException
              /\ out'.notice = entry[ nearest ].long_formatted_text_ ]_vars

\* the rule of the trigger heuristic, with the character at Python index
\* C - 1 being the C-th character of the line
TriggerRule( line, C ) ==
  /\ C >= 1
  /\ C <= Len( line )
  /\ \/ line[ C ] = "."
     \/ /\ C >= 2
        /\ << line[ C - 1 ], line[ C ] >> \in { << "-", ">" >>, << ":", ":" >> }

\* C14 as stated: ShouldUseClang is total and follows the rule, and it answers
\* true for "foo." with column 5 and "foo->" with column 6, false for "foo:"
\* with column 5 and "f" with column 0.
C14_Original ==
  out.op = "ShouldUseNow"
  => LET line == out.args[ 1 ]
         C == out.args[ 2 ]
     IN /\ out.kind = "bool"
        /\ out.val = << TriggerRule( line, C ) >>
        /\ ( line = FooDot /\ C = 5 ) => out.val = << TRUE >>
        /\ ( line = FooArrow /\ C = 6 ) => out.val = << TRUE >>
        /\ ( line = FooColon /\ C = 5 ) => out.val = << FALSE >>
        /\ ( line = << "f" >> /\ C = 0 ) => out.val = << FALSE >>

\* C14 amended: ShouldUseClang is total and answers true exactly when
\* start_column - 1 is a 0-based index into the line and the character there
\* is ".", or it and the character before it are "->" or "::"; it is false
\* for every other start_column.  So it is true for "foo." with start_column
\* 4 and "foo->" with start_column 5, and false for "foo." with 5, "foo->"
\* with 6, "foo:" with 5 and "f" with 0.
C14_ShouldUseClang ==
  out.op = "ShouldUseNow"
  => LET line == out.args[ 1 ]
         C == out.args[ 2 ]
     IN /\ out.kind = "bool"
        /\ out.val = << TriggerRule( line, C ) >>
        /\ ( C < 1 \/ C > Len( line ) ) => out.val = << FALSE >>
        /\ ( line = FooDot /\ C = 4 ) => out.val = << TRUE >>
        /\ ( line = FooArrow /\ C = 5 ) => out.val = << TRUE >>
        /\ ( line = FooScope /\ C = 5 ) => out.val = << TRUE >>
        /\ ( line = FooDot /\ C = 5 ) => out.val = << FALSE >>
        /\ ( line = FooArrow /\ C = 6 ) => out.val = << FALSE >>
        /\ ( line = FooColon /\ C = 5 ) => out.val = << FALSE >>
        /\ ( line = << "f" >> /\ C = 0 ) => out.val = << FALSE >>

\* ShouldUseNow has just answered true for "foo->" with start_column 5
C14_Witness ==
  /\ out.op = "ShouldUseNow"
  /\ out.args = << FooArrow, 5 >>
  /\ out.val = << TRUE >>

\* C15: OnFileReadyToParse on a buffer of fewer than 5 lines dispatches
\* nothing and sets the parse handle to None in every state, whatever the
\* flags and also while a parse of the current file is in flight; that parse
\* runs on in the engine, and DiagnosticsForCurrentFileReady is false after
\* the call.
C15_ShortBufferClears ==
  [][ \A lines \in LineChoices, flags \in FlagChoices :
        ( /\ NumLinesInBuffer( lines ) < MinLinesToParse
          /\ OnFileReadyToParse( lines, flags ) )
        => /\ NothingDispatched
           /\ parse_future' = None
           /\ ~ DiagnosticsReady'
           /\ out'.kind = "None" ]_vars

\* OnFileReadyToParse has just returned for a buffer of 4 lines and left the
\* handle empty, while the parse of that file is still running in the engine
C15_Witness ==
  /\ out.op = "OnFileReadyToParse"
  /\ out.args[ 1 ] < MinLinesToParse
  /\ parse_future = None
  /\ UpdatingTranslationUnit( current )

\* C16 as stated: when GetDiagnosticsForCurrentFile consumes the parse of
\* file F, every other file keeps the index entries it had.
C16_Original ==
  [][ ( DiagnosticsReady /\ GetDiagnosticsForCurrentFile )
      => LET F == parse_future[ 1 ].file
         IN \A G \in DiagFileNames \ { F }, l \in DiagLineNumbers :
              StoreLookup( diagnostic_store, G, l ) # << >>
              => StoreLookup( diagnostic_store', G, l )
                   = StoreLookup( diagnostic_store, G, l ) ]_vars

\* C16 amended: when GetDiagnosticsForCurrentFile consumes a parse, it
\* replaces the whole index: afterwards the entry of every file G, on every
\* line, is exactly what the diagnostics the engine reports for the current
\* file say about G, so an entry of another file survives only if those
\* diagnostics repeat it and is empty otherwise.
C16_WholeIndexReplaced ==
  [][ ( DiagnosticsReady /\ GetDiagnosticsForCurrentFile )
      => \A G \in DiagFileNames, l \in DiagLineNumbers :
           StoreLookup( diagnostic_store', G, l )
             = OnLine( DiagnosticsForFile( current ), G, l ) ]_vars

\* GetDiagnosticsForCurrentFile has just consumed a parse that found nothing
\* in the current file: the index is empty although the engine holds
\* diagnostics of the other file, whose parse was consumed before
C16_Witness ==
  /\ out.op = "GetDiagnosticsForCurrentFile"
  /\ parse_future = None
  /\ "diagnostic_store" \notin missing_attrs
  /\ DiagnosticsForFile( current ) = NoDiagnostics
  /\ diagnostic_store = EmptyStructure
  /\ out.val = << >>
  /\ \E G \in Files \ { current } : DiagnosticsForFile( G ) # NoDiagnostics

\* C17 as stated: with a fair engine and a fair editor loop, a stored parse
\* handle is eventually None again, a parse in flight eventually is not, and
\* OnFileReadyToParse for a file with no parse in flight, 5 lines and flags
\* dispatches.
C17_Original ==
  /\ ( parse_future # None ) ~> ( parse_future = None )
  /\ \A f \in Files :
       UpdatingTranslationUnit( f ) ~> ~ UpdatingTranslationUnit( f )
  /\ [][ \A lines \in LineChoices, flags \in FlagChoices :
           ( /\ NumLinesInBuffer( lines ) >= MinLinesToParse
             /\ flags # NoFlags
             /\ ~ UpdatingTranslationUnit( current )
             /\ OnFileReadyToParse( lines, flags ) )
           => /\ parse_future' # None
              /\ parse_future'[ 1 ].file = current
              /\ UpdatingTranslationUnit( current )' ]_vars

\* C17 amended: with a fair engine and a fair editor loop, every parse in
\* flight eventually is not in flight any more, a handle whose result is
\* ready does not stay ready for ever (it is consumed, cleared or replaced),
\* and OnFileReadyToParse for a file with no parse in flight, at least 5
\* lines and flags can always be called and dispatches a parse of that file.
\* The handle itself need not become None again.
C17_NeverStuck ==
  /\ \A f \in Files :
       UpdatingTranslationUnit( f ) ~> ~ UpdatingTranslationUnit( f )
  /\ DiagnosticsReady ~> ~ DiagnosticsReady
  /\ []( ~ UpdatingTranslationUnit( current )
         => ENABLED OnFileReadyToParse( Lines5, SomeFlags ) )
  /\ [][ \A lines \in LineChoices, flags \in FlagChoices :
           ( /\ NumLinesInBuffer( lines ) >= MinLinesToParse
             /\ flags # NoFlags
             /\ ~ UpdatingTranslationUnit( current )
             /\ OnFileReadyToParse( lines, flags ) )
           => /\ parse_future' # None
              /\ parse_future'[ 1 ].state = "running"
              /\ parse_future'[ 1 ].file = current
              /\ UpdatingTranslationUnit( current )' ]_vars

\* OnFileReadyToParse has just dispatched a parse of the current file again,
\* after an earlier parse of it finished and was consumed
C17_Witness ==
  /\ out.op = "OnFileReadyToParse"
  /\ parse_future # None
  /\ parse_future[ 1 ].state = "running"
  /\ parse_future[ 1 ].file = current
  /\ "diagnostic_store" \notin missing_attrs
  /\ DiagnosticsForFile( current ) # NoDiagnostics
  /\ diagnostic_store =
       DiagnosticsToDiagStructure( DiagnosticsForFile( current ) )

\* C18: a CandidatesForQueryAsync call refused by a guard (parse of the
\* current file in flight, or no flags) leaves self.completions_future set to
\* None and dispatches nothing; only a dispatching CandidatesForQueryAsync
\* call stores a handle again; and CandidatesFromStoredRequest called while
\* the handle is None returns the empty list without notice or exception.  So
\* the next CandidatesFromStoredRequest after a refusal returns the empty
\* list, never the results of an earlier request.
C18_RefusalEmptiesHandle ==
  [][ /\ \A query \in Queries, lines \in LineChoices, flags \in FlagChoices :
           ( /\ CandidatesForQueryAsync( query, lines, flags )
             /\ UpdatingTranslationUnit( current ) \/ flags = NoFlags )
           => /\ completions_future' = None
              /\ "completions_future" \notin missing_attrs'
              /\ NothingDispatched
      /\ ( completions_future = None /\ completions_future' # None )
           => /\ IsCandidatesForQueryAsync
              /\ out'.notice = NoNotice
              /\ completions_future'[ 1 ].state = "running"
      /\ ( /\ CandidatesFromStoredRequest
           /\ completions_future = None
           /\ "completions_future" \notin missing_attrs )
           => /\ out'.kind = "list"
              /\ out'.val = << >>
              /\ out'.notice = NoNotice
              /\ out'.exc = NoException ]_vars

\* CandidatesFromStoredRequest has just returned the empty list after a
\* refusal dropped the handle of a query that is still running in the engine
C18_Witness ==
  /\ out.op = "CandidatesFromStoredRequest"
  /\ out.kind = "list"
  /\ out.val = << >>
  /\ completions_future = None
  /\ \E task \in BagToSet( completion_orphans ) : task.latest

\* C19 as stated: no file has a parse and a completion query in flight in
\* the engine at the same time.
C19_Original ==
  \A f \in Files : ~ ( ParsesInFlight( f ) > 0 /\ CompletionsInFlight( f ) > 0 )

\* C19 amended: a completion query is handed to the engine only for the
\* current file and only while no parse of that file is in flight.  The
\* converse is not guarded: OnFileReadyToParse dispatches a parse of a file
\* whose completion query is still in flight, so both can be in flight
\* together.
C19_NoQueryDispatchedWhileParsing ==
  [][ \A f \in Files :
        CompletionsInFlight( f )' > CompletionsInFlight( f )
        => /\ f = current
           /\ ~ UpdatingTranslationUnit( f )
           /\ IsCandidatesForQueryAsync ]_vars

\* OnFileReadyToParse has just dispatched a parse of the current file while
\* the completion query stored for that file is still running
C19_Witness ==
  /\ out.op = "OnFileReadyToParse"
  /\ parse_future # None
  /\ parse_future[ 1 ].state = "running"
  /\ parse_future[ 1 ].file = current
  /\ completions_future # None
  /\ completions_future[ 1 ].state = "running"
  /\ completions_future[ 1 ].file = current

====
